---- MODULE Spec2Model ----
(***************************************************************************)
(* Model of allpackersNotification.py: the startup configuration checks,   *)
(* the recipient loader, the per-recipient delivery pipeline               *)
(* (send_promotional_email), the admin log mail (send_log_email) and the   *)
(* main block.  Python values that the code inspects at run time (JSON     *)
(* values, environment values) are tagged records [t |-> type, v |-> ...]; *)
(* strings the code parses are sequences of one-character strings.         *)
(***************************************************************************)
EXTENDS Integers, Sequences, FiniteSets, TLC

VARIABLES env, pc, RECIPIENTS, idx, success_count, failure_count,
          failed_recipients, smtp, log, log_file_exists

vars == <<env, pc, RECIPIENTS, idx, success_count, failure_count,
          failed_recipients, smtp, log, log_file_exists>>

\* Longest recipients.json array the model loads.
MaxRecipients == 2

-----------------------------------------------------------------------------
\* Python / JSON values

NoneVal == [t |-> "null", v |-> <<>>]
Str(chars) == [t |-> "str", v |-> chars]
Num(n) == [t |-> "int", v |-> n]
\* an integer literal above the range of a double, e.g. 10**400
BigInt == [t |-> "bigint", v |-> <<>>]
Arr(elems) == [t |-> "array", v |-> elems]
Obj(f) == [t |-> "object", v |-> f]

Digits == {"0", "1", "2", "3", "4", "5", "6", "7", "8", "9"}

DigitVal(c) ==
    CASE c = "0" -> 0 [] c = "1" -> 1 [] c = "2" -> 2 [] c = "3" -> 3
      [] c = "4" -> 4 [] c = "5" -> 5 [] c = "6" -> 6 [] c = "7" -> 7
      [] c = "8" -> 8 [] c = "9" -> 9

RECURSIVE DigitsValue(_)
DigitsValue(s) ==
    IF s = <<>> THEN 0
    ELSE 10 * DigitsValue(SubSeq(s, 1, Len(s) - 1)) + DigitVal(s[Len(s)])

AllDigits(s) == \A i \in 1..Len(s) : s[i] \in Digits

HasSign(s) == Len(s) > 0 /\ s[1] \in {"+", "-"}
Unsigned(s) == IF HasSign(s) THEN SubSeq(s, 2, Len(s)) ELSE s
IsNegative(s) == Len(s) > 0 /\ s[1] = "-"

\* int(SMTP_PORT) on a str: optional sign and at least one decimal digit.
ParseInt(s) ==
    LET u == Unsigned(s) IN
    IF u # <<>> /\ AllDigits(u)
    THEN [exc |-> "none",
          val |-> IF IsNegative(s) THEN 0 - DigitsValue(u) ELSE DigitsValue(u)]
    ELSE [exc |-> "ValueError", val |-> 0]

\* Position of the decimal point in s, 0 when there is none.
PointAt(s) ==
    IF \E i \in 1..Len(s) : s[i] = "."
    THEN CHOOSE i \in 1..Len(s) : s[i] = "." /\ \A j \in 1..(i - 1) : s[j] # "."
    ELSE 0

\* float() on a str: optional sign, then nan, inf, or digits with at most
\* one decimal point.  The value is num / 10^scale with the sign neg.
ParseFloatStr(s) ==
    LET u == Unsigned(s)
        p == PointAt(u)
        whole == IF p = 0 THEN u ELSE SubSeq(u, 1, p - 1)
        frac == IF p = 0 THEN <<>> ELSE SubSeq(u, p + 1, Len(u))
    IN  IF u = <<"n", "a", "n">>
        THEN [exc |-> "none", kind |-> "nan", neg |-> IsNegative(s),
              num |-> 0, scale |-> 0]
        ELSE IF u = <<"i", "n", "f">>
        THEN [exc |-> "none", kind |-> "inf", neg |-> IsNegative(s),
              num |-> 0, scale |-> 0]
        ELSE IF AllDigits(whole) /\ AllDigits(frac) /\ Len(whole) + Len(frac) > 0
        THEN [exc |-> "none", kind |-> "finite", neg |-> IsNegative(s),
              num |-> DigitsValue(whole \o frac), scale |-> Len(frac)]
        ELSE [exc |-> "ValueError", kind |-> "none", neg |-> FALSE,
              num |-> 0, scale |-> 0]

\* float(recipient["trip_cost"]) on a JSON value.
ParseFloat(x) ==
    CASE x.t = "str" -> ParseFloatStr(x.v)
      [] x.t = "int" ->
            [exc |-> "none", kind |-> "finite", neg |-> x.v < 0,
             num |-> IF x.v < 0 THEN 0 - x.v ELSE x.v, scale |-> 0]
      [] x.t = "bigint" ->
            [exc |-> "OverflowError", kind |-> "none", neg |-> FALSE,
             num |-> 0, scale |-> 0]
      [] OTHER ->
            [exc |-> "TypeError", kind |-> "none", neg |-> FALSE,
             num |-> 0, scale |-> 0]

-----------------------------------------------------------------------------
\* Startup configuration (module level)

EnvNames == {"SMTP_SERVER", "SMTP_PORT", "EMAIL_ADDRESS", "EMAIL_PASSWORD",
             "ADMIN_EMAIL"}

\* Values os.getenv can return for a variable: unset, empty, or a string.
EnvValues(name) ==
    IF name = "SMTP_PORT"
    THEN {NoneVal, Str(<<>>), Str(<<"2", "5">>), Str(<<"2", "a">>)}
    ELSE {NoneVal, Str(<<>>), Str(<<"x">>)}

\* IsMissing testing only `var_value is None`.
IsMissing_NoneOnly(var_value) == var_value.t = "null"

\* `not var_value`
IsMissing(var_value) == var_value.t = "null" \/ var_value.v = <<>>

missing_smtp_vars(e) == {name \in EnvNames : IsMissing(e[name])}

ConfigOk(e) ==
    /\ missing_smtp_vars(e) = {}
    /\ ParseInt(e["SMTP_PORT"].v).exc = "none"

-----------------------------------------------------------------------------
\* Recipient records

required_fields == <<"email", "name", "trip_name", "trip_date", "trip_cost",
                     "trip_description">>

Chars(field) ==
    CASE field = "email" -> <<"e", "m", "a", "i", "l">>
      [] field = "name" -> <<"n", "a", "m", "e">>
      [] field = "trip_name" -> <<"t", "r", "i", "p", "_", "n", "a", "m", "e">>
      [] field = "trip_date" -> <<"t", "r", "i", "p", "_", "d", "a", "t", "e">>
      [] field = "trip_cost" -> <<"t", "r", "i", "p", "_", "c", "o", "s", "t">>
      [] field = "trip_description" ->
            <<"t", "r", "i", "p", "_", "d", "e", "s", "c", "r", "i", "p", "t",
              "i", "o", "n">>

IsSubstring(sub, s) ==
    \E i \in 0..(Len(s) - Len(sub)) : SubSeq(s, i + 1, i + Len(sub)) = sub

\* Whether `field in recipient` can be evaluated: a number or null raises
\* TypeError (argument is not iterable).
SupportsIn(recipient) == recipient.t \in {"object", "array", "str"}

\* `field in recipient` for a dict (key), a list (element), a str (substring).
Contains(recipient, field) ==
    CASE recipient.t = "object" -> field \in DOMAIN recipient.v
      [] recipient.t = "array" ->
            \E i \in 1..Len(recipient.v) : recipient.v[i] = Str(Chars(field))
      [] recipient.t = "str" -> IsSubstring(Chars(field), recipient.v)

\* MissingFieldsOf stopping at the first missing field.
MissingFieldsOf_FirstOnly(recipient) ==
    LET all == SelectSeq(required_fields, LAMBDA field : ~Contains(recipient, field))
    IN  IF all = <<>> THEN <<>> ELSE <<all[1]>>

\* missing_fields = [field for field in required_fields if field not in recipient]
MissingFieldsOf(recipient) ==
    SelectSeq(required_fields, LAMBDA field : ~Contains(recipient, field))

\* Only a dict has .get; on any other value recipient.get raises AttributeError.
HasGet(recipient) == recipient.t = "object"

Unknown == Str(<<"U", "n", "k", "n", "o", "w", "n">>)

\* recipient.get(key, "Unknown") on a dict
Get(recipient, key) ==
    IF key \in DOMAIN recipient.v THEN recipient.v[key] ELSE Unknown

Ana == Str(<<"A", "n", "a">>)
Bo == Str(<<"B", "o">>)
AnaMail == Str(<<"a", "@", "x">>)
BoMail == Str(<<"b", "@", "x">>)
Trek == Str(<<"T", "r", "e", "k">>)
May == Str(<<"M", "a", "y">>)
Hike == Str(<<"H", "i", "k", "e">>)

FullRecord(name, email, cost) ==
    Obj([field \in {"email", "name", "trip_name", "trip_date", "trip_cost",
                    "trip_description"} |->
            CASE field = "email" -> email
              [] field = "name" -> name
              [] field = "trip_name" -> Trek
              [] field = "trip_date" -> May
              [] field = "trip_cost" -> cost
              [] field = "trip_description" -> Hike])

\* The record r without the keys in ks.
Without(r, ks) == Obj([field \in (DOMAIN r.v) \ ks |-> r.v[field]])

\* trip_cost values a record of recipients.json may carry.
CostValues ==
    {Str(<<"1", "5">>), Num(7), Str(<<"-", "5">>), Str(<<"n", "a", "n">>),
     Str(<<"a">>), NoneVal, BigInt}

\* Elements recipients.json may hold: the loader accepts any JSON value.
Records ==
    {FullRecord(Ana, AnaMail, c) : c \in CostValues \ {Num(7)}}
        \cup {FullRecord(Bo, BoMail, Num(7))}
        \cup {Without(FullRecord(Ana, AnaMail, Num(7)), ks) :
                ks \in {{"trip_date"}, {"email", "name"}, {"trip_cost"},
                        {"email", "name", "trip_name", "trip_date",
                         "trip_cost", "trip_description"}}}
        \cup {Num(5), Arr(<<>>)}

RECURSIVE SeqsUpTo(_, _)
SeqsUpTo(S, n) ==
    IF n = 0 THEN {<<>>}
    ELSE LET shorter == SeqsUpTo(S, n - 1)
         IN  shorter \cup {Append(q, x) : q \in {r \in shorter : Len(r) = n - 1},
                                          x \in S}

\* What the loader can find at recipients_file_path.
FileContents ==
    {[kind |-> "missing", value |-> NoneVal],
     [kind |-> "malformed", value |-> NoneVal],
     [kind |-> "json", value |-> Obj(<<>>)]}
        \cup {[kind |-> "json", value |-> Arr(q)] :
                q \in SeqsUpTo(Records, MaxRecipients)}

-----------------------------------------------------------------------------
\* Mail transport (smtplib.SMTP)

Stages == <<"connect", "starttls", "login", "sendmail">>

\* One session's behaviour: every call succeeds, or the call `fail` raises an
\* smtplib.SMTPException or another exception (OSError: refused, timed out).
TransportOutcomes ==
    {[fail |-> "none", exc |-> "none"]}
        \cup {[fail |-> Stages[i], exc |-> e] :
                i \in 1..Len(Stages), e \in {"SMTPException", "OSError"}}

\* The record of one `with smtplib.SMTP(...)` block: for whom (0 = admin),
\* the message, the last call made and the exception it raised, if any.
SmtpSession(rcpt, msg, t) ==
    [rcpt |-> rcpt, msg |-> msg,
     reached |-> IF t.fail = "none" THEN "sendmail" ELSE t.fail,
     exc |-> t.exc]

Submitted(c) == c.reached = "sendmail" /\ c.exc = "none"

-----------------------------------------------------------------------------
\* Run log (email_campaign.log) and the tracking globals

LogLine(level, event, data) == [level |-> level, event |-> event, data |-> data]

\* The globals send_promotional_email updates, with the transport's record
\* of sessions and the run log.
Tracking ==
    [success_count |-> success_count, failure_count |-> failure_count,
     failed_recipients |-> failed_recipients, smtp |-> smtp, log |-> log]

Logged(st, line) == [st EXCEPT !.log = Append(@, line)]

FailedEntry(recipient, kind, detail) ==
    [name |-> Get(recipient, "name"), email |-> Get(recipient, "email"),
     reason |-> [kind |-> kind, detail |-> detail]]

\* RecordFailure without the append.
RecordFailure_NoAppend(st, recipient, kind, detail) ==
    [st EXCEPT !.failure_count = @ + 1]

\* failure_count += 1; failed_recipients.append({...})
RecordFailure(st, recipient, kind, detail) ==
    [st EXCEPT !.failure_count = @ + 1,
               !.failed_recipients = Append(@, FailedEntry(recipient, kind, detail))]

\* logging.info(...); success_count += 1
RecordSuccess(st, recipient) ==
    [Logged(st, LogLine("INFO", "sent", <<Get(recipient, "email")>>))
        EXCEPT !.success_count = @ + 1]

\* CostRejected as `except ValueError` alone.
CostRejected_ValueErrorOnly(exc) == exc = "ValueError"

\* except (ValueError, TypeError)
CostRejected(exc) == exc \in {"ValueError", "TypeError"}

\* SendMessage with success_count += 1 placed before the `with` block.
SendMessage_CountFirst(st, i, recipient, t) ==
    LET session == SmtpSession(i, [to |-> recipient.v["email"]], t)
        counted == RecordSuccess(st, recipient)
        opened == [counted EXCEPT !.smtp = Append(@, session)]
    IN  IF t.exc = "none"
        THEN [st |-> opened, exc |-> "none"]
        ELSE IF t.exc = "SMTPException"
        THEN [st |-> RecordFailure(
                        Logged(opened, LogLine("ERROR", "smtp_error", <<t.fail>>)),
                        recipient, "SMTP error", <<t.fail, t.exc>>),
              exc |-> "none"]
        ELSE [st |-> opened, exc |-> t.exc]

\* SendMessage opening a second session after a failed one.
SendMessage_Retry(st, i, recipient, t) ==
    LET session == SmtpSession(i, [to |-> recipient.v["email"]], t)
        opened == [st EXCEPT !.smtp = Append(@, session)]
        retried == [opened EXCEPT !.smtp = Append(@, session)]
    IN  IF t.exc = "none"
        THEN [st |-> RecordSuccess(opened, recipient), exc |-> "none"]
        ELSE IF t.exc = "SMTPException"
        THEN [st |-> RecordFailure(
                        Logged(retried, LogLine("ERROR", "smtp_error", <<t.fail>>)),
                        recipient, "SMTP error", <<t.fail, t.exc>>),
              exc |-> "none"]
        ELSE [st |-> retried, exc |-> t.exc]

\* The try block that opens the SMTP session for recipient number i, with its
\* `except smtplib.SMTPException` handler.  exc is the exception that leaves
\* the block.
SendMessage(st, i, recipient, t) ==
    LET session == SmtpSession(i, [to |-> recipient.v["email"]], t)
        opened == [st EXCEPT !.smtp = Append(@, session)]
    IN  IF t.exc = "none"
        THEN [st |-> RecordSuccess(opened, recipient), exc |-> "none"]
        ELSE IF t.exc = "SMTPException"
        THEN [st |-> RecordFailure(
                        Logged(opened, LogLine("ERROR", "smtp_error", <<t.fail>>)),
                        recipient, "SMTP error", <<t.fail, t.exc>>),
              exc |-> "none"]
        ELSE [st |-> opened, exc |-> t.exc]

\* The body of the outer try of send_promotional_email.
TryBody(st, i, recipient, t) ==
    IF ~SupportsIn(recipient)
    THEN [st |-> st, exc |-> "TypeError"]
    ELSE IF MissingFieldsOf(recipient) # <<>>
    THEN LET counted == [Logged(st, LogLine("ERROR", "missing_fields",
                                            MissingFieldsOf(recipient)))
                            EXCEPT !.failure_count = @ + 1]
         IN  IF HasGet(recipient)
             THEN [st |-> RecordFailure(
                            Logged(st, LogLine("ERROR", "missing_fields",
                                               MissingFieldsOf(recipient))),
                            recipient, "Missing fields", MissingFieldsOf(recipient)),
                   exc |-> "none"]
             ELSE [st |-> counted, exc |-> "AttributeError"]
    ELSE IF ~HasGet(recipient)
    THEN [st |-> st, exc |-> "AttributeError"]
    ELSE LET cost == ParseFloat(recipient.v["trip_cost"])
         IN  IF cost.exc = "none"
             THEN SendMessage(st, i, recipient, t)
             ELSE IF CostRejected(cost.exc)
             THEN [st |-> RecordFailure(
                            Logged(st, LogLine("ERROR", "invalid_trip_cost",
                                               <<recipient.v["trip_cost"]>>)),
                            recipient, "Invalid trip_cost",
                            <<recipient.v["trip_cost"]>>),
                   exc |-> "none"]
             ELSE [st |-> st, exc |-> cost.exc]

\* send_promotional_email(recipient) for recipient number i under transport
\* behaviour t: the tracking state it leaves and whether an exception escapes.
\* The `except Exception` handler itself calls recipient.get, which raises
\* AttributeError when the element is not a dict.
send_promotional_email(st, i, recipient, t) ==
    LET body == TryBody(st, i, recipient, t)
    IN  IF body.exc = "none"
        THEN [st |-> body.st, raised |-> FALSE]
        ELSE IF HasGet(recipient)
        THEN [st |-> RecordFailure(
                        Logged(body.st, LogLine("ERROR", "unexpected_error",
                                                <<body.exc>>)),
                        recipient, "Unexpected error",
                        IF body.exc = "OSError" THEN <<t.fail, body.exc>>
                                                ELSE <<body.exc>>),
              raised |-> FALSE]
        ELSE [st |-> body.st, raised |-> TRUE]

\* send_log_email catching smtplib.SMTPException only.
send_log_email_SmtpOnly(st, exists, t) ==
    LET noted == IF exists THEN st
                 ELSE Logged(st, LogLine("ERROR", "log_file_not_found", <<>>))
        msg == [to |-> "ADMIN_EMAIL",
                attachment |-> [present |-> exists,
                                content |-> IF exists THEN st.log ELSE <<>>]]
        opened == [noted EXCEPT !.smtp = Append(@, SmtpSession(0, msg, t))]
    IN  IF t.exc = "none"
        THEN [st |-> Logged(opened, LogLine("INFO", "log_email_sent", <<>>)),
              raised |-> FALSE]
        ELSE IF t.exc = "SMTPException"
        THEN [st |-> Logged(opened, LogLine("ERROR", "log_email_error", <<t.fail>>)),
              raised |-> FALSE]
        ELSE [st |-> opened, raised |-> TRUE]

\* send_log_email() with the log file present or not, under transport
\* behaviour t.  Both handlers only log; nothing is re-raised.
send_log_email(st, exists, t) ==
    LET noted == IF exists THEN st
                 ELSE Logged(st, LogLine("ERROR", "log_file_not_found", <<>>))
        msg == [to |-> "ADMIN_EMAIL",
                attachment |-> [present |-> exists,
                                content |-> IF exists THEN st.log ELSE <<>>]]
        opened == [noted EXCEPT !.smtp = Append(@, SmtpSession(0, msg, t))]
    IN  IF t.exc = "none"
        THEN [st |-> Logged(opened, LogLine("INFO", "log_email_sent", <<>>)),
              raised |-> FALSE]
        ELSE [st |-> Logged(opened, LogLine("ERROR", "log_email_error", <<t.fail>>)),
              raised |-> FALSE]

-----------------------------------------------------------------------------
\* The program

Init ==
    /\ env \in [EnvNames -> UNION {EnvValues(n) : n \in EnvNames}]
    /\ \A n \in EnvNames : env[n] \in EnvValues(n)
    /\ pc = "config"
    /\ RECIPIENTS = <<>>
    /\ idx = 1
    /\ success_count = 0
    /\ failure_count = 0
    /\ failed_recipients = <<>>
    /\ smtp = <<>>
    /\ log = <<LogLine("INFO", "started", <<>>)>>
    /\ log_file_exists = TRUE

\* Module level: the environment checks; exit(1) on a missing variable or a
\* port that is not an integer.
CheckConfig ==
    /\ pc = "config"
    /\ IF ConfigOk(env)
       THEN /\ pc' = "load"
            /\ log' = log
       ELSE /\ pc' = "exit1"
            /\ log' = Append(log, LogLine("ERROR",
                        IF missing_smtp_vars(env) # {} THEN "missing_smtp_vars"
                                                       ELSE "invalid_smtp_port",
                        <<>>))
    /\ UNCHANGED <<env, RECIPIENTS, idx, success_count, failure_count,
                   failed_recipients, smtp, log_file_exists>>

\* RECIPIENTS after the loader has read file.
Loaded(file) ==
    IF file.kind = "json" /\ file.value.t = "array" THEN file.value.v ELSE <<>>

\* Module level: load recipients.json and initialise the counters.
LoadRecipients ==
    /\ pc = "load"
    /\ \E file \in FileContents :
        /\ RECIPIENTS' = Loaded(file)
        /\ log' = IF file.kind = "json" /\ file.value.t = "array"
                  THEN Append(log, LogLine("INFO", "loaded", <<>>))
                  ELSE Append(Append(log, LogLine("ERROR", file.kind, <<>>)),
                              LogLine("INFO", "loaded", <<>>))
    /\ success_count' = 0
    /\ failure_count' = 0
    /\ failed_recipients' = <<>>
    /\ idx' = 1
    /\ pc' = "send"
    /\ UNCHANGED <<env, smtp, log_file_exists>>

\* send_emails_to_all_recipients with an empty list: warn and return.
NoRecipients ==
    /\ pc = "send"
    /\ RECIPIENTS = <<>>
    /\ log' = Append(log, LogLine("WARNING", "no_recipients", <<>>))
    /\ pc' = "log"
    /\ UNCHANGED <<env, RECIPIENTS, idx, success_count, failure_count,
                   failed_recipients, smtp, log_file_exists>>

\* One iteration of the loop of send_emails_to_all_recipients.  An exception
\* that escapes send_promotional_email is uncaught: the process dies.
SendNext ==
    /\ pc = "send"
    /\ idx <= Len(RECIPIENTS)
    /\ \E t \in TransportOutcomes :
        LET r == send_promotional_email(Tracking, idx, RECIPIENTS[idx], t)
        IN  /\ success_count' = r.st.success_count
            /\ failure_count' = r.st.failure_count
            /\ failed_recipients' = r.st.failed_recipients
            /\ smtp' = r.st.smtp
            /\ log' = r.st.log
            /\ IF r.raised
               THEN pc' = "crashed" /\ idx' = idx
               ELSE /\ idx' = idx + 1
                    /\ pc' = IF idx = Len(RECIPIENTS) THEN "log" ELSE "send"
    /\ UNCHANGED <<env, RECIPIENTS, log_file_exists>>

\* The environment removes the log file before send_log_email looks for it.
RemoveLogFile ==
    /\ pc = "log"
    /\ log_file_exists
    /\ log_file_exists' = FALSE
    /\ UNCHANGED <<env, pc, RECIPIENTS, idx, success_count, failure_count,
                   failed_recipients, smtp, log>>

\* __main__: send_log_email()
SendLogEmail ==
    /\ pc = "log"
    /\ \E t \in TransportOutcomes :
        LET r == send_log_email(Tracking, log_file_exists, t)
        IN  /\ success_count' = r.st.success_count
            /\ failure_count' = r.st.failure_count
            /\ failed_recipients' = r.st.failed_recipients
            /\ smtp' = r.st.smtp
            /\ log' = r.st.log
            /\ pc' = IF r.raised THEN "crashed" ELSE "summary"
    /\ UNCHANGED <<env, RECIPIENTS, idx, log_file_exists>>

\* The lines the main block logs last: the counts, then the failed recipients.
SummaryLines ==
    <<LogLine("INFO", "completed", <<success_count, failure_count>>)>>
        \o (IF failed_recipients # <<>>
            THEN <<LogLine("INFO", "failed_recipients", failed_recipients)>>
            ELSE <<>>)

\* __main__: the closing report.
Summary ==
    /\ pc = "summary"
    /\ log' = log \o SummaryLines
    /\ pc' = "done"
    /\ UNCHANGED <<env, RECIPIENTS, idx, success_count, failure_count,
                   failed_recipients, smtp, log_file_exists>>

Next ==
    \/ CheckConfig
    \/ LoadRecipients
    \/ NoRecipients
    \/ SendNext
    \/ RemoveLogFile
    \/ SendLogEmail
    \/ Summary

Spec == Init /\ [][Next]_vars

\* Exit status of the process once it has ended (1 for exit(1) and for an
\* uncaught exception).
ExitStatus == IF pc = "done" THEN 0 ELSE 1

Terminated == pc \in {"done", "exit1", "crashed"}

-----------------------------------------------------------------------------
\* Vocabulary of the properties

Last(q) == q[Len(q)]

RequiredSet == {required_fields[k] : k \in 1..Len(required_fields)}

IsMapping(r) == r.t = "object"

AllMappings == \A k \in 1..Len(RECIPIENTS) : IsMapping(RECIPIENTS[k])

HasAllFields(r) == IsMapping(r) /\ RequiredSet \subseteq DOMAIN r.v

\* A call of send_promotional_email is about to run on RECIPIENTS[idx].
AtRecipient == pc = "send" /\ idx <= Len(RECIPIENTS)

CountedSent ==
    /\ success_count' = success_count + 1
    /\ failure_count' = failure_count
    /\ failed_recipients' = failed_recipients

\* One failure counted, one entry for the current recipient appended.
CountedFailed ==
    /\ failure_count' = failure_count + 1
    /\ success_count' = success_count
    /\ Len(failed_recipients') = Len(failed_recipients) + 1
    /\ SubSeq(failed_recipients', 1, Len(failed_recipients)) = failed_recipients
    /\ Last(failed_recipients').name = Get(RECIPIENTS[idx], "name")
    /\ Last(failed_recipients').email = Get(RECIPIENTS[idx], "email")

SessionsFor(i) == {k \in 1..Len(smtp) : smtp[k].rcpt = i}

-----------------------------------------------------------------------------
\* C1: on a list of mappings every call of send_promotional_email counts
\* exactly one outcome: either success_count or failure_count grows by one,
\* never both; after k recipients the two counters sum to k, and
\* failed_recipients holds the failed recipients in input order, as many as
\* failure_count.

C1_Accounting ==
    AllMappings =>
        /\ success_count + failure_count = idx - 1
        /\ Len(failed_recipients) = failure_count

C1_OneOutcomePerCall ==
    (AtRecipient /\ IsMapping(RECIPIENTS[idx])) =>
        /\ idx' = idx + 1
        /\ CountedSent \/ CountedFailed

C1_ExactlyOneOutcome == [](C1_Accounting) /\ [][C1_OneOutcomePerCall]_vars

C1_Witness ==
    /\ pc = "log"
    /\ AllMappings
    /\ success_count >= 1
    /\ failure_count >= 1
    /\ Len(failed_recipients) = failure_count

\* C2: no exception escapes send_promotional_email, and the loop reaches the
\* last element of every array the loader accepts.

C2_NoRecipientAbortsTheRun ==
    /\ pc # "crashed"
    /\ pc \in {"log", "summary", "done"} => idx = Len(RECIPIENTS) + 1

\* C3: with only valid records and a transport that never fails, the run
\* ends with success_count = N, failure_count = 0 and no failed recipient;
\* success_count grows only after the recipient's sendmail has completed.

ParseableCost(r) == ParseFloat(r.v["trip_cost"]).exc = "none"

AllValid ==
    \A k \in 1..Len(RECIPIENTS) :
        HasAllFields(RECIPIENTS[k]) /\ ParseableCost(RECIPIENTS[k])

TransportNeverFailed == \A k \in 1..Len(smtp) : smtp[k].rcpt > 0 => smtp[k].exc = "none"

C3_AllSent ==
    (pc \in {"log", "summary", "done"} /\ AllValid /\ TransportNeverFailed) =>
        /\ success_count = Len(RECIPIENTS)
        /\ failure_count = 0
        /\ failed_recipients = <<>>

C3_SuccessAfterSendmail ==
    success_count' # success_count =>
        /\ success_count' = success_count + 1
        /\ Len(smtp') = Len(smtp) + 1
        /\ Last(smtp').rcpt = idx
        /\ Submitted(Last(smtp'))

C3_ValidRunAllSucceed == [](C3_AllSent) /\ [][C3_SuccessAfterSendmail]_vars

C3_Witness ==
    /\ pc = "done"
    /\ AllValid
    /\ TransportNeverFailed
    /\ Len(RECIPIENTS) >= 2
    /\ success_count = Len(RECIPIENTS)

\* C4: a transport failure for one recipient is recorded as Failed exactly
\* once, with the transport's error message, success_count is untouched, the
\* send is not retried, and the loop goes on to the next recipient.

C4_FailureRecordedOnce ==
    (pc = "send" /\ smtp' # smtp /\ Last(smtp').exc # "none") =>
        /\ Len(smtp') = Len(smtp) + 1
        /\ SubSeq(smtp', 1, Len(smtp)) = smtp
        /\ Last(smtp').rcpt = idx
        /\ CountedFailed
        /\ Last(failed_recipients').reason.detail
                = <<Last(smtp').reached, Last(smtp').exc>>
        /\ idx' = idx + 1
        /\ pc' \in {"send", "log"}

C4_AtMostOneSession ==
    \A i \in 1..Len(RECIPIENTS) : Cardinality(SessionsFor(i)) <= 1

C4_TransportFailure == [](C4_AtMostOneSession) /\ [][C4_FailureRecordedOnce]_vars

C4_Witness ==
    /\ pc = "send"
    /\ idx = 2
    /\ smtp # <<>>
    /\ Last(smtp).rcpt = 1
    /\ Last(smtp).reached = "login"
    /\ Last(smtp).exc = "SMTPException"
    /\ failure_count = 1
    /\ success_count = 0

\* C5: a mapping that lacks required keys is recorded as Failed with a
\* reason that names exactly the missing keys, and no SMTP session is opened
\* for it.

MissingKeys(r) == RequiredSet \ DOMAIN r.v

Named(detail) == {detail[k] : k \in 1..Len(detail)}

C5_Step ==
    (AtRecipient /\ IsMapping(RECIPIENTS[idx]) /\ MissingKeys(RECIPIENTS[idx]) # {}) =>
        /\ CountedFailed
        /\ Last(failed_recipients').reason.kind = "Missing fields"
        /\ Named(Last(failed_recipients').reason.detail) = MissingKeys(RECIPIENTS[idx])
        /\ Len(Last(failed_recipients').reason.detail)
                = Cardinality(MissingKeys(RECIPIENTS[idx]))
        /\ smtp' = smtp

C5_MissingFieldsNamedExactly == [][C5_Step]_vars

C5_Witness ==
    /\ pc = "send"
    /\ idx = 2
    /\ failure_count = 1
    /\ Last(failed_recipients).reason.kind = "Missing fields"
    /\ Last(failed_recipients).reason.detail = <<"email", "name">>
    /\ Last(failed_recipients).name = Unknown
    /\ smtp = <<>>

\* C6 as stated: a record with all keys whose trip_cost does not convert to a
\* finite non-negative number is Failed with an invalid-cost reason and no
\* SMTP session is opened for it.

FiniteNonNegative(cost) ==
    LET c == ParseFloat(cost) IN c.exc = "none" /\ c.kind = "finite" /\ ~c.neg

InvalidCostRecorded ==
    /\ CountedFailed
    /\ Last(failed_recipients').reason.kind = "Invalid trip_cost"
    /\ smtp' = smtp

C6_OriginalStep ==
    (AtRecipient /\ HasAllFields(RECIPIENTS[idx])
        /\ ~FiniteNonNegative(RECIPIENTS[idx].v["trip_cost"])) => InvalidCostRecorded

NonNumeric(cost) ==
    \/ cost.t = "str" /\ ParseFloatStr(cost.v).exc # "none"
    \/ cost.t \in {"null", "array", "object"}

C6_AmendedStep ==
    /\ (AtRecipient /\ HasAllFields(RECIPIENTS[idx])
            /\ NonNumeric(RECIPIENTS[idx].v["trip_cost"])) => InvalidCostRecorded
    /\ (AtRecipient /\ HasAllFields(RECIPIENTS[idx])
            /\ ParseableCost(RECIPIENTS[idx])) =>
                /\ Len(smtp') = Len(smtp) + 1
                /\ Last(smtp').rcpt = idx

C7_LogNotifierRunsOnce ==
    (ConfigOk(env) /\ Terminated) => Cardinality(SessionsFor(0)) = 1

\* C8: send_log_email returns without raising under every transport
\* behaviour, with the log file present or not; it leaves the counters and
\* failed_recipients alone, and with the log file absent and a working
\* transport the message is submitted without attachment.

C8_Step ==
    (pc = "log" /\ pc' # "log") =>
        /\ pc' = "summary"
        /\ success_count' = success_count
        /\ failure_count' = failure_count
        /\ failed_recipients' = failed_recipients
        /\ Len(smtp') = Len(smtp) + 1
        /\ SubSeq(smtp', 1, Len(smtp)) = smtp
        /\ Last(smtp').rcpt = 0
        /\ Last(smtp').msg.attachment.present = log_file_exists
        /\ (Last(smtp').exc = "none") => Submitted(Last(smtp'))

C8_ExitZeroAfterLogMail == pc = "done" => ExitStatus = 0 /\ Cardinality(SessionsFor(0)) = 1

C8_LogMailBestEffort == [](C8_ExitZeroAfterLogMail) /\ [][C8_Step]_vars

C8_Witness ==
    /\ pc = "done"
    /\ ~log_file_exists
    /\ Last(smtp).rcpt = 0
    /\ Submitted(Last(smtp))
    /\ ~Last(smtp).msg.attachment.present
    /\ failure_count = 1

\* C9: with a required variable absent or empty, or a port that is not an
\* integer, the process exits with status 1 before any recipient is loaded,
\* any SMTP session is opened or any log mail is sent.

BadConfig ==
    \/ \E n \in EnvNames : env[n] = NoneVal \/ env[n] = Str(<<>>)
    \/ ParseInt(env["SMTP_PORT"].v).exc # "none"

C9_NothingHappens ==
    BadConfig =>
        /\ pc \in {"config", "exit1"}
        /\ RECIPIENTS = <<>>
        /\ smtp = <<>>
        /\ pc = "exit1" => ExitStatus = 1

C9_ExitStep == (pc = "config" /\ BadConfig) => pc' = "exit1"

C9_FailFast == [](C9_NothingHappens) /\ [][C9_ExitStep]_vars

C9_Witness ==
    /\ pc = "exit1"
    /\ missing_smtp_vars(env) = {}
    /\ env["SMTP_PORT"] = Str(<<"2", "a">>)

\* C10: the log attached to the admin mail contains the run's final counts.

HasFinalCounts(content) ==
    \E k \in 1..Len(content) :
        /\ content[k].event = "completed"
        /\ content[k].data = <<success_count, failure_count>>

C10_MailedLogHasFinalCounts ==
    \A k \in 1..Len(smtp) :
        (smtp[k].rcpt = 0 /\ smtp[k].msg.attachment.present) =>
            HasFinalCounts(smtp[k].msg.attachment.content)

====
